---------------------------- MODULE Spec2Model ----------------------------
(***************************************************************************)
(* Model of the rate-limited task layer of hubspot_integration_server_core *)
(* (services/tasks.py): the rate-limit string parser, the lazy one-time    *)
(* initialisation of a task, and RateLimitedTask.__call__ run by several   *)
(* workers against one Redis server.                                       *)
(*                                                                         *)
(* Python strings are sequences of one-character strings, so that split,   *)
(* int() and lower() are computed rather than assumed.                     *)
(***************************************************************************)
EXTENDS Integers, Sequences, FiniteSets, TLC

(***************************************************************************)
(* Bounds of the model.                                                    *)
(***************************************************************************)
\* longest rate-limit string the parser specification enumerates
MaxLen == 4
\* invocations of the task made in one behaviour
MaxCalls == 4

\* Python's None where a string is expected (an unset rate_limit attribute):
\* no string has a character of more than one letter
None == <<"None">>

\* an optional integer: Python's None, or an int
NoInt == [some |-> FALSE, v |-> 0]

SomeInt(v) == [some |-> TRUE, v |-> v]

(***************************************************************************)
(* _parse_rate_limit                                                       *)
(***************************************************************************)
\* characters the enumerated rate-limit strings are made of
Alphabet == {"0", "1", "3", "-", "_", " ", "/", "s", "M", "h", "x"}

Digits == {"0", "1", "2", "3", "4", "5", "6", "7", "8", "9"}

\* the decimal value of a digit character
DigitVal(c) ==
    CASE c = "0" -> 0 [] c = "1" -> 1 [] c = "2" -> 2 [] c = "3" -> 3
      [] c = "4" -> 4 [] c = "5" -> 5 [] c = "6" -> 6 [] c = "7" -> 7
      [] c = "8" -> 8 [] c = "9" -> 9

\* str.split('/'): the pieces between the separators, one more than there
\* are separators
RECURSIVE SplitSlash(_)
SplitSlash(s) ==
    IF \A i \in 1..Len(s) : s[i] # "/"
    THEN <<s>>
    ELSE LET i == CHOOSE j \in 1..Len(s) :
                     s[j] = "/" /\ \A m \in 1..(j - 1) : s[m] # "/"
         IN  <<SubSeq(s, 1, i - 1)>> \o SplitSlash(SubSeq(s, i + 1, Len(s)))

\* str.strip() as int() applies it: leading and trailing whitespace removed
RECURSIVE Strip(_)
Strip(s) ==
    IF s = <<>> THEN s
    ELSE IF Head(s) = " " THEN Strip(Tail(s))
    ELSE IF s[Len(s)] = " " THEN Strip(SubSeq(s, 1, Len(s) - 1))
    ELSE s

\* the digit part of an integer literal: digits, single underscores allowed
\* between two digits only
IsDigitString(s) ==
    /\ s # <<>>
    /\ \A i \in 1..Len(s) : s[i] \in Digits \cup {"_"}
    /\ s[1] # "_"
    /\ s[Len(s)] # "_"
    /\ \A i \in 1..(Len(s) - 1) : ~(s[i] = "_" /\ s[i + 1] = "_")

\* the value of a digit string, underscores skipped
RECURSIVE DigitsValue(_, _)
DigitsValue(s, acc) ==
    IF s = <<>> THEN acc
    ELSE IF Head(s) = "_" THEN DigitsValue(Tail(s), acc)
    ELSE DigitsValue(Tail(s), 10 * acc + DigitVal(Head(s)))

\* Python's int(str): surrounding whitespace, an optional sign, then digits;
\* NoInt stands for the ValueError it raises
PyInt(s) ==
    LET t == Strip(s)
        signed == t # <<>> /\ Head(t) \in {"-", "+"}
        body == IF signed THEN Tail(t) ELSE t
    IN  IF ~IsDigitString(body) THEN NoInt
        ELSE IF signed /\ Head(t) = "-" THEN SomeInt(0 - DigitsValue(body, 0))
        ELSE SomeInt(DigitsValue(body, 0))

\* str.lower() on one character
LowerChar(c) ==
    CASE c = "S" -> "s" [] c = "M" -> "m" [] c = "H" -> "h" [] c = "X" -> "x"
      [] OTHER -> c

\* variant: the unit letter compared as written, lower() left out
LowerForgotten(s) == s

\* str.lower()
Lower(s) == [i \in 1..Len(s) |-> LowerChar(s[i])]

\* the value of a successful parse, and the ValueError of a failed one
Parsed(limit, period_seconds) ==
    [ok |-> TRUE, limit |-> limit, period_seconds |-> period_seconds]

ValueError == [ok |-> FALSE, limit |-> 0, period_seconds |-> 0]

\* the period of a unit letter, NoInt when it is not one of s, m, h
PeriodOf(period_char) ==
    IF period_char = <<"s">> THEN SomeInt(1)
    ELSE IF period_char = <<"m">> THEN SomeInt(60)
    ELSE IF period_char = <<"h">> THEN SomeInt(3600)
    ELSE NoInt

\* the limit of the numerator: whatever int() returns
LimitOf(part) == PyInt(part)

\* _parse_rate_limit(rate_limit_string)
_parse_rate_limit(rate_limit_string) ==
    IF rate_limit_string = <<>> THEN ValueError
    ELSE LET parts == SplitSlash(rate_limit_string)
         IN  IF Len(parts) # 2 THEN ValueError
             ELSE LET limit == LimitOf(parts[1])
                      period_seconds == PeriodOf(Lower(parts[2]))
                  IN  IF ~limit.some THEN ValueError
                      ELSE IF ~period_seconds.some THEN ValueError
                      ELSE Parsed(limit.v, period_seconds.v)

(***************************************************************************)
(* The Redis server behind redis_client, and the task layer's inputs       *)
(***************************************************************************)
\* number of clock steps taken in one behaviour
MaxTicks == 2

\* seconds by which one clock step advances the time
TickSteps == {1, 60}

\* the worker processes that run the task
Workers == {"w1", "w2"}

\* client ids passed as the first positional argument
ClientIds == {<<"a">>, <<"b">>}

\* the positional arguments of an invocation: none, or a client id
ArgsSet == {<<>>} \cup {<<c>> : c \in ClientIds}

\* values of configuration['HUBSPOT_RATE_LIMIT'] the task is declared with
RateLimits ==
    { <<"1", "/", "s">>, <<"3", "/", "s">>, <<"2", "/", "M">>,
      <<"3", "/", "x">>, None }

\* key_prefix of the hubspot_task decorator
base_key_prefix == <<"h", "u", "b", "s", "p", "o", "t">>

\* the registered name of the task (self.name)
name == <<"t">>

\* f"{self.base_key_prefix}:{self.name}:{client_id}"
BucketKey(prefix, task_name, client_id) ==
    prefix \o <<":">> \o task_name \o <<":">> \o client_id

\* the keys of the store the invocations of the model can touch
BucketKeys == {BucketKey(base_key_prefix, name, c) : c \in ClientIds}

\* a stored key: its integer value and its remaining time to live in
\* seconds; persist: the key has no expiry (ttl is then 0)
Entry(value, ttl) ==
    [exists |-> TRUE, value |-> value, persist |-> FALSE, ttl |-> ttl]

Persistent(value) ==
    [exists |-> TRUE, value |-> value, persist |-> TRUE, ttl |-> 0]

\* a key that does not exist
Absent == [exists |-> FALSE, value |-> 0, persist |-> FALSE, ttl |-> 0]

\* GET key: the value, None when the key does not exist
Get(db, k) == IF db[k].exists THEN SomeInt(db[k].value) ELSE NoInt

\* DECR key: a missing key counts as 0 and is created without expiry;
\* the expiry of an existing key is kept
Decr(db, k) ==
    [db EXCEPT ![k] = IF ~db[k].exists THEN Persistent(0 - 1)
                      ELSE [db[k] EXCEPT !.value = @ - 1]]

\* variant: the compensating INCR left out
IncrForgotten(db, k) == db

\* INCR key: a missing key counts as 0 and is created without expiry;
\* the expiry of an existing key is kept
Incr(db, k) ==
    [db EXCEPT ![k] = IF ~db[k].exists THEN Persistent(1)
                      ELSE [db[k] EXCEPT !.value = @ + 1]]

\* SETEX key seconds value: the value and the expiry are both replaced
Setex(db, k, seconds, value) == [db EXCEPT ![k] = Entry(value, seconds)]

\* the store after d seconds: a key whose time to live has run out is gone
Expire(db, d) ==
    [k \in DOMAIN db |->
        IF ~db[k].exists \/ db[k].persist THEN db[k]
        ELSE IF db[k].ttl <= d THEN Absent
        ELSE Entry(db[k].value, db[k].ttl - d)]

(***************************************************************************)
(* State                                                                   *)
(***************************************************************************)
VARIABLES
    rate_limit,    \* the rate_limit string the task class is declared with
    parse_result,  \* what _parse_rate_limit made of rate_limit (parser runs)
    redis,         \* the Redis server: bucket key -> stored entry
    task,          \* per worker: the task instance's _rate_limit_* attributes
    pc,            \* per worker: where its invocation of __call__ stands
    frame,         \* per worker: the local variables of that invocation
    result,        \* how the invocation that ended last went
    window,        \* per key: what happened since the key last did not exist
    ncalls,        \* invocations made so far
    nticks,        \* clock steps taken so far
    retry,         \* the task runner: the retry it was last asked for
    keyed          \* bucket keys built so far, each with what it was built of

vars == <<rate_limit, parse_result, redis, task, pc, frame, result, window,
          ncalls, nticks, retry, keyed>>

\* a task instance before its first call (class attribute defaults)
NewTask ==
    [_rate_limit_calls |-> 0, _rate_limit_period |-> 0,
     _rate_limit_initialized |-> FALSE]

\* the locals of __call__ outside an invocation; entry and quiet are
\* observations: the key's entry when the invocation began, and whether
\* nothing else (another worker, an expiry) has touched the key since
NoFrame ==
    [args |-> <<>>, bucket_key |-> <<>>, tokens_before |-> NoInt,
     tokens_after |-> 0, entry |-> Absent, quiet |-> TRUE]

\* the record of an invocation: how __call__ ended ("none" before any has:
\* "Returned" with the body's result, or the exception raised), its
\* arguments and bucket key, the two results of the pipeline, the argument
\* lists the body was run with, the retries requested from the task runner,
\* the store operations issued, the key's entry when it began and when it
\* ended, whether nothing else touched the key meanwhile, and whether the
\* invocation that ended before it was one on the same key that raised Retry
NoResult ==
    [outcome |-> "none", args |-> <<>>, bucket_key |-> <<>>,
     tokens_before |-> NoInt, tokens_after |-> 0,
     body |-> <<>>, retries |-> <<>>, ops |-> <<>>,
     before |-> Absent, after |-> Absent, quiet |-> TRUE,
     after_retry |-> FALSE]

\* what has happened to a key.  Since it last did not exist: invocations
\* that ran the body, invocations whose GET found it missing, SETEX
\* initialisations.  Over the whole run: whether it was ever initialised by
\* SETEX, and the seconds since the latest initialisation (up to the period)
NewWindow ==
    [admitted |-> 0, absent |-> 0, inits |-> 0, initialized |-> FALSE,
     age |-> 0]

\* the task runner's record of the retry it was last asked for: none, or
\* "pending" (waiting for the countdown), "running" (the call is being made
\* again), "done" (that call has ended); the call's arguments, the seconds
\* of the countdown still to pass, and whether another invocation has
\* operated on the call's key since the retry was asked for
NoRetry ==
    [state |-> "none", args |-> <<>>, countdown |-> 0, touched |-> FALSE]

\* nothing but rate_limit is set: no key, no invocation, fresh task instances
InitRest ==
    /\ redis = [k \in BucketKeys |-> Absent]
    /\ task = [w \in Workers |-> NewTask]
    /\ pc = [w \in Workers |-> "idle"]
    /\ frame = [w \in Workers |-> NoFrame]
    /\ result = NoResult
    /\ window = [k \in BucketKeys |-> NewWindow]
    /\ ncalls = 0
    /\ nticks = 0
    /\ retry = NoRetry
    /\ keyed = <<>>

Init ==
    /\ rate_limit \in RateLimits
    /\ parse_result = <<>>
    /\ InitRest

(***************************************************************************)
(* RateLimitedTask                                                         *)
(***************************************************************************)
\* variant: a rate_limit that is unset or does not parse is passed over,
\* the attributes keeping their defaults
_initialize_rate_limit_lenient(self, rate_limit_string) ==
    IF self._rate_limit_initialized THEN [raised |-> FALSE, self |-> self]
    ELSE LET r == _parse_rate_limit(rate_limit_string)
         IN  [raised |-> FALSE,
              self |-> [_rate_limit_calls |-> r.limit,
                        _rate_limit_period |-> r.period_seconds,
                        _rate_limit_initialized |-> TRUE]]

\* _initialize_rate_limit(self): the task instance afterwards, and whether
\* it raised
_initialize_rate_limit(self, rate_limit_string) ==
    IF self._rate_limit_initialized THEN [raised |-> FALSE, self |-> self]
    ELSE IF rate_limit_string = None THEN [raised |-> TRUE, self |-> self]
    ELSE LET r == _parse_rate_limit(rate_limit_string)
         IN  IF ~r.ok THEN [raised |-> TRUE, self |-> self]
             ELSE [raised |-> FALSE,
                   self |-> [_rate_limit_calls |-> r.limit,
                             _rate_limit_period |-> r.period_seconds,
                             _rate_limit_initialized |-> TRUE]]

\* variant: a decremented value of 0 refused as well
AfterExecuteOffByOne(tokens_before, tokens_after) ==
    IF ~tokens_before.some THEN "setex"
    ELSE IF tokens_after <= 0 THEN "incr"
    ELSE "run"

\* variant: the first call recognised by the decremented value being
\* negative instead of by the GET finding no key
AfterExecuteByAfter(tokens_before, tokens_after) ==
    IF tokens_after < 0 THEN "setex" ELSE "run"

\* the branch __call__ takes on the pipeline's two results
AfterExecute(tokens_before, tokens_after) ==
    IF ~tokens_before.some THEN "setex"
    ELSE IF tokens_after < 0 THEN "incr"
    ELSE "run"

\* the arguments of redis_client.setex(bucket_key, seconds, value)
SetexSeconds(self) == self._rate_limit_period

SetexValue(self) == self._rate_limit_calls - 1

\* self.retry(countdown=...)
RetryCountdown(self) == self._rate_limit_period

\* a store operation issued by an invocation, and whether the store answered
Op(op, ok) == [op |-> op, ok |-> ok]

\* the retry the task runner is asked for: the same call, after countdown
RetryRequest(args, countdown) == [args |-> args, countdown |-> countdown]

\* frames after worker w operated on key k: the other invocations in
\* progress on k have been interfered with
Disturb(fr, w, k) ==
    [x \in Workers |->
        IF x # w /\ pc[x] # "idle" /\ fr[x].bucket_key = k
        THEN [fr[x] EXCEPT !.quiet = FALSE]
        ELSE fr[x]]

\* the invocation of worker w, with locals fr, has ended; db is the store
\* as it leaves it
Return(w, outcome, fr, body, retries, ops, db) ==
    /\ pc' = [pc EXCEPT ![w] = "idle"]
    /\ result' =
          [outcome |-> outcome, args |-> fr.args,
           bucket_key |-> fr.bucket_key,
           tokens_before |-> fr.tokens_before,
           tokens_after |-> fr.tokens_after,
           body |-> body, retries |-> retries, ops |-> ops,
           before |-> fr.entry,
           after |-> IF fr.bucket_key \in BucketKeys
                     THEN db[fr.bucket_key] ELSE Absent,
           quiet |-> fr.quiet,
           after_retry |-> /\ result.outcome = "Retry"
                           /\ result.bucket_key = fr.bucket_key]

\* super().__call__(*args, **kwargs): the body runs once with the arguments
\* of the invocation and its result is returned
RunBody(w, fr, ops, db) ==
    Return(w, "Returned", fr, <<fr.args>>, <<>>, ops, db)

\* variant: retry(..., throw=False), which returns instead of raising, so
\* that __call__ goes on to the body
RaiseRetryNoThrow(w, fr, ops, db) ==
    Return(w, "Returned", fr, <<fr.args>>,
           <<RetryRequest(fr.args, RetryCountdown(task[w]))>>, ops, db)

\* self.retry(countdown=...): the task runner is asked to run the same call
\* again and Retry is raised
RaiseRetry(w, fr, ops, db) ==
    Return(w, "Retry", fr, <<>>,
           <<RetryRequest(fr.args, RetryCountdown(task[w]))>>, ops, db)

\* variant: a store error caught and turned into a retry
StoreFailureAsRetry(w, fr, ops) ==
    Return(w, "Retry", fr, <<>>, <<RetryRequest(fr.args, 1)>>, ops, redis)

\* a store operation raised: nothing catches it, __call__ ends with it
StoreFailure(w, fr, ops) ==
    Return(w, "ConnectionError", fr, <<>>, <<>>, ops, redis)

\* __call__(*args): initialisation, the argument check and the pipeline
\* (GET and DECR in one MULTI/EXEC transaction, redis-py's default), then
\* either the body, or on to the SETEX or the INCR.  up: the store answers
Invoke(w, args, up) ==
    /\ pc[w] = "idle"
    /\ ncalls < MaxCalls
    /\ ncalls' = ncalls + 1
    /\ UNCHANGED <<rate_limit, parse_result, nticks>>
    /\ LET init == _initialize_rate_limit(task[w], rate_limit)
       IN
       /\ task' = [task EXCEPT ![w] = init.self]
       /\ IF init.raised \/ args = <<>>
          THEN /\ Return(w, "ValueError", [NoFrame EXCEPT !.args = args],
                         <<>>, <<>>, <<>>, redis)
               /\ UNCHANGED <<redis, frame, window>>
          ELSE
          LET client_id == args[1]
              bucket_key == BucketKey(base_key_prefix, name, client_id)
              fr0 == [NoFrame EXCEPT !.args = args,
                                     !.bucket_key = bucket_key,
                                     !.entry = redis[bucket_key]]
          IN
          IF ~up
          THEN /\ StoreFailure(w, fr0, <<Op("execute", FALSE)>>)
               /\ UNCHANGED <<redis, frame, window>>
          ELSE
          LET tokens_before == Get(redis, bucket_key)
              db == Decr(redis, bucket_key)
              tokens_after == db[bucket_key].value
              fr == [fr0 EXCEPT !.tokens_before = tokens_before,
                                !.tokens_after = tokens_after]
              branch == AfterExecute(tokens_before, tokens_after)
              seen == IF tokens_before.some THEN 0 ELSE 1
          IN
          /\ redis' = db
          /\ IF branch = "run"
             THEN /\ RunBody(w, fr, <<Op("execute", TRUE)>>, db)
                  /\ frame' = Disturb(frame, w, bucket_key)
                  /\ window' = [window EXCEPT ![bucket_key].admitted = @ + 1,
                                              ![bucket_key].absent = @ + seen]
             ELSE /\ pc' = [pc EXCEPT ![w] = branch]
                  /\ UNCHANGED result
                  /\ frame' = [Disturb(frame, w, bucket_key) EXCEPT ![w] = fr]
                  /\ window' = [window EXCEPT ![bucket_key].absent = @ + seen]

\* variant: the return after the SETEX left out, so that the first call
\* falls through to the check of the decremented value
DoSetexFallThrough(w, up) ==
    /\ pc[w] = "setex"
    /\ up
    /\ redis' = Setex(redis, frame[w].bucket_key, SetexSeconds(task[w]),
                      SetexValue(task[w]))
    /\ pc' = [pc EXCEPT ![w] = IF frame[w].tokens_after < 0
                               THEN "incr" ELSE "idle"]
    /\ UNCHANGED <<rate_limit, parse_result, task, ncalls, nticks, frame,
                   result, window>>

\* the first call for a key: redis_client.setex(...), then the body
DoSetex(w, up) ==
    /\ pc[w] = "setex"
    /\ UNCHANGED <<rate_limit, parse_result, task, ncalls, nticks>>
    /\ LET fr == frame[w]
           k == fr.bucket_key
           db == Setex(redis, k, SetexSeconds(task[w]), SetexValue(task[w]))
       IN  IF up
           THEN /\ redis' = db
                /\ RunBody(w, fr, <<Op("execute", TRUE), Op("setex", TRUE)>>,
                           db)
                /\ frame' = [Disturb(frame, w, k) EXCEPT ![w] = NoFrame]
                /\ window' = [window EXCEPT ![k].admitted = @ + 1,
                                            ![k].inits = @ + 1,
                                            ![k].initialized = TRUE,
                                            ![k].age = 0]
           ELSE /\ StoreFailure(w, fr,
                                <<Op("execute", TRUE), Op("setex", FALSE)>>)
                /\ frame' = [frame EXCEPT ![w] = NoFrame]
                /\ UNCHANGED <<redis, window>>

\* rate limit exceeded: redis_client.incr(...), then self.retry(...)
DoIncr(w, up) ==
    /\ pc[w] = "incr"
    /\ UNCHANGED <<rate_limit, parse_result, task, ncalls, nticks, window>>
    /\ LET fr == frame[w]
           k == fr.bucket_key
           db == Incr(redis, k)
       IN  IF up
           THEN /\ redis' = db
                /\ RaiseRetry(w, fr, <<Op("execute", TRUE), Op("incr", TRUE)>>,
                              db)
                /\ frame' = [Disturb(frame, w, k) EXCEPT ![w] = NoFrame]
           ELSE /\ StoreFailure(w, fr,
                                <<Op("execute", TRUE), Op("incr", FALSE)>>)
                /\ frame' = [frame EXCEPT ![w] = NoFrame]
                /\ UNCHANGED redis

\* the limit and the period the declared rate_limit stands for
Limit == _parse_rate_limit(rate_limit).limit

Period == _parse_rate_limit(rate_limit).period_seconds

\* the period the task instances hold (0 while none is initialised)
HeldPeriod ==
    LET ps == {task[w]._rate_limit_period : w \in Workers}
    IN  CHOOSE p \in ps : \A q \in ps : q <= p

\* the seconds since a key's initialisation d seconds later; they are
\* counted up to the period, beyond which they make no difference
Older(age, d) == IF age + d >= HeldPeriod THEN HeldPeriod ELSE age + d

\* d seconds pass: keys whose time to live has run out expire
Tick(d) ==
    /\ nticks < MaxTicks
    /\ nticks' = nticks + 1
    /\ redis' = Expire(redis, d)
    /\ window' = [k \in BucketKeys |->
          LET aged == IF window[k].initialized
                      THEN [window[k] EXCEPT !.age = Older(@, d)]
                      ELSE window[k]
          IN  IF redis[k].exists /\ ~redis'[k].exists
              THEN [aged EXCEPT !.admitted = 0, !.absent = 0, !.inits = 0]
              ELSE aged]
    /\ frame' = [w \in Workers |->
          IF /\ pc[w] # "idle"
             /\ redis[frame[w].bucket_key].exists
             /\ ~redis'[frame[w].bucket_key].exists
          THEN [frame[w] EXCEPT !.quiet = FALSE]
          ELSE frame[w]]
    /\ UNCHANGED <<rate_limit, parse_result, task, pc, result, ncalls>>

\* the task runner and the key builder stand still
Apart == UNCHANGED <<retry, keyed>>

Next ==
    \/ \E w \in Workers, args \in ArgsSet, up \in BOOLEAN :
          Invoke(w, args, up) /\ Apart
    \/ \E w \in Workers, up \in BOOLEAN : DoSetex(w, up) /\ Apart
    \/ \E w \in Workers, up \in BOOLEAN : DoIncr(w, up) /\ Apart
    \/ \E d \in TickSteps : Tick(d) /\ Apart

\* workers run the task concurrently; the store may fail; time passes
Spec == Init /\ [][Next]_vars

\* no invocation is in progress
AllIdle == \A w \in Workers : pc[w] = "idle"

\* invocations run one at a time, each to its end before anything else
\* happens, against a store that answers
NextSeq ==
    \/ \E w \in Workers, args \in ArgsSet :
          AllIdle /\ Invoke(w, args, TRUE) /\ Apart
    \/ \E w \in Workers : DoSetex(w, TRUE) /\ Apart
    \/ \E w \in Workers : DoIncr(w, TRUE) /\ Apart
    \/ \E d \in TickSteps : AllIdle /\ Tick(d) /\ Apart

SpecSeq == Init /\ [][NextSeq]_vars

\* invocations run one at a time against a store that answers, while time
\* passes as it will, also between the store operations of an invocation
NextSolo ==
    \/ \E w \in Workers, args \in ArgsSet :
          AllIdle /\ Invoke(w, args, TRUE) /\ Apart
    \/ \E w \in Workers : DoSetex(w, TRUE) /\ Apart
    \/ \E w \in Workers : DoIncr(w, TRUE) /\ Apart
    \/ \E d \in TickSteps : Tick(d) /\ Apart

SpecSolo == Init /\ [][NextSolo]_vars

\* workers run the task concurrently against a store that answers, while
\* time passes as it will
NextUp ==
    \/ \E w \in Workers, args \in ArgsSet : Invoke(w, args, TRUE) /\ Apart
    \/ \E w \in Workers : DoSetex(w, TRUE) /\ Apart
    \/ \E w \in Workers : DoIncr(w, TRUE) /\ Apart
    \/ \E d \in TickSteps : Tick(d) /\ Apart

SpecUp == Init /\ [][NextUp]_vars

\* the worker process dies between the pipeline and the store operation
\* that follows it: the invocation stops there, nothing more is sent to the
\* store, and the worker comes back with a fresh task instance
Crash(w) ==
    /\ pc[w] \in {"setex", "incr"}
    /\ Return(w, "Crashed", frame[w], <<>>, <<>>, <<Op("execute", TRUE)>>,
              redis)
    /\ frame' = [frame EXCEPT ![w] = NoFrame]
    /\ task' = [task EXCEPT ![w] = NewTask]
    /\ UNCHANGED <<rate_limit, parse_result, redis, window, ncalls, nticks>>

\* workers run the task concurrently; the store may fail and a worker may
\* die in the middle of a call; time passes
NextCrash ==
    \/ \E w \in Workers, args \in ArgsSet, up \in BOOLEAN :
          Invoke(w, args, up) /\ Apart
    \/ \E w \in Workers, up \in BOOLEAN : DoSetex(w, up) /\ Apart
    \/ \E w \in Workers, up \in BOOLEAN : DoIncr(w, up) /\ Apart
    \/ \E w \in Workers : Crash(w) /\ Apart
    \/ \E d \in TickSteps : Tick(d) /\ Apart

SpecCrash == Init /\ [][NextCrash]_vars

(***************************************************************************)
(* The task runner's side of self.retry(countdown=...): the same call is   *)
(* made again once the countdown has passed                                *)
(***************************************************************************)
\* the retry the task runner holds once an invocation has asked for one
Pending(request) ==
    [state |-> "pending", args |-> request.args,
     countdown |-> request.countdown, touched |-> FALSE]

\* the countdown d seconds later
CountedDown(countdown, d) == IF countdown <= d THEN 0 ELSE countdown - d

\* an invocation other than the retry begins; one on the key of a pending
\* retry touches that key
InvokeR(w, args) ==
    /\ AllIdle
    /\ Invoke(w, args, TRUE)
    /\ retry' = IF retry.state = "pending"
                THEN [retry EXCEPT !.touched =
                         @ \/ (args # <<>> /\ args[1] = retry.args[1])]
                ELSE NoRetry
    /\ UNCHANGED keyed

\* the SETEX of the invocation in progress, which ends it
DoSetexR(w) ==
    /\ DoSetex(w, TRUE)
    /\ retry' = IF retry.state = "running"
                THEN [retry EXCEPT !.state = "done"]
                ELSE retry
    /\ UNCHANGED keyed

\* the INCR of the invocation in progress and its self.retry(...): the task
\* runner takes the request (the model follows one request at a time)
DoIncrR(w) ==
    /\ DoIncr(w, TRUE)
    /\ retry' = IF retry.state = "running"
                THEN [retry EXCEPT !.state = "done"]
                ELSE IF retry.state = "pending" THEN retry
                ELSE Pending(result'.retries[1])
    /\ UNCHANGED keyed

\* d seconds pass, for the store and for the countdown
TickR(d) ==
    /\ Tick(d)
    /\ retry' = IF retry.state = "pending"
                THEN [retry EXCEPT !.countdown = CountedDown(@, d)]
                ELSE retry
    /\ UNCHANGED keyed

\* the countdown has passed: the task runner has a worker make the call
\* again, with the arguments of the call that asked
RunRetry(w) ==
    /\ AllIdle
    /\ retry.state = "pending"
    /\ retry.countdown = 0
    /\ Invoke(w, retry.args, TRUE)
    /\ retry' = [retry EXCEPT !.state =
                    IF pc'[w] = "idle" THEN "done" ELSE "running"]
    /\ UNCHANGED keyed

NextRetry ==
    \/ \E w \in Workers, args \in ArgsSet : InvokeR(w, args)
    \/ \E w \in Workers : DoSetexR(w)
    \/ \E w \in Workers : DoIncrR(w)
    \/ \E d \in TickSteps : TickR(d)
    \/ \E w \in Workers : RunRetry(w)

\* invocations run one at a time against a store that answers, the task
\* runner repeats a refused call after its countdown, and time passes as it
\* will
SpecRetry == Init /\ [][NextRetry]_vars

(***************************************************************************)
(* The bucket key on its own: keys built for tasks of several decorators   *)
(* and names, and for several clients                                      *)
(***************************************************************************)
\* bucket keys built in one behaviour
MaxKeyed == 2

\* key_prefix arguments given to create_api_task_decorator
Namespaces == {<<"h">>, <<"h", ":", "t">>}

\* names tasks are registered under
TaskNames == {<<"t">>, <<"t", ":", "a">>}

\* client ids passed as the first positional argument
KeyClientIds == {<<"a">>, <<"b">>, <<"a", ":", "b">>}

\* an invocation of a task of decorator prefix, registered as task_name,
\* for client_id, builds its bucket key
MakeKey(prefix, task_name, client_id) ==
    /\ Len(keyed) < MaxKeyed
    /\ keyed' = Append(keyed,
          [base_key_prefix |-> prefix, name |-> task_name,
           client_id |-> client_id,
           bucket_key |-> BucketKey(prefix, task_name, client_id)])
    /\ UNCHANGED <<rate_limit, parse_result, redis, task, pc, frame, result,
                   window, ncalls, nticks, retry>>

NextKey ==
    \E prefix \in Namespaces, task_name \in TaskNames,
       client_id \in KeyClientIds : MakeKey(prefix, task_name, client_id)

SpecKey == Init /\ [][NextKey]_vars

(***************************************************************************)
(* The parser on its own: every string up to MaxLen over Alphabet, and the *)
(* strings the documentation names                                         *)
(***************************************************************************)
\* the strings of length at most n over Alphabet
Strings(n) == UNION {[1..m -> Alphabet] : m \in 0..n}

\* rate-limit strings named in the documentation and near them
Examples ==
    { <<"1", "0">>, <<"a", "b", "c", "/", "s">>, <<"1", "0", "/", "x">>,
      <<"-", "3", "/", "s">>, <<"1", "0", "/", "s">>,
      <<"6", "0", "0", "/", "m">>, <<"2", "/", "H">>, <<"7", "/", "S">>,
      <<"+", "3", "/", "s">>, <<"1", "0", "/", "s", "e", "c">>,
      <<"1", "0", "/", "s", "/", "m">> }

InitParse ==
    /\ rate_limit \in Strings(MaxLen) \cup Examples
    /\ parse_result = <<>>
    /\ InitRest

\* one application of the parser to rate_limit
Parse ==
    /\ parse_result = <<>>
    /\ parse_result' = <<_parse_rate_limit(rate_limit)>>
    /\ UNCHANGED <<rate_limit, redis, task, pc, frame, result, window,
                   ncalls, nticks, retry, keyed>>

NextParse == Parse

SpecParse == InitParse /\ [][NextParse]_vars

(***************************************************************************)
(* Properties                                                              *)
(***************************************************************************)
\* this step ends an invocation (result' then describes it)
Ends ==
    \/ ncalls' = ncalls + 1 /\ pc' = pc
    \/ \E w \in Workers : pc[w] # "idle" /\ pc'[w] = "idle"

\* C1: calls on a key that run one at a time, starting with the key absent
\* and with no expiry in between: a call runs the body only while at most
\* limit calls have, and a call is refused only once exactly limit calls
\* have run the body, with a retry after period_seconds; so the first limit
\* calls are admitted and call limit+1 is denied
C1_FirstLimitAdmitted ==
    [][(Ends /\ result'.bucket_key \in BucketKeys /\ Limit >= 1) =>
         LET k == result'.bucket_key
         IN  /\ result'.outcome \in {"Returned", "Retry"}
             /\ result'.outcome = "Returned" => window'[k].admitted <= Limit
             /\ result'.outcome = "Retry" =>
                  /\ window[k].admitted = Limit
                  /\ result'.retries = <<RetryRequest(result'.args, Period)>>
      ]_vars

\* with "3/s" the fourth sequential call is refused, retry after 1 second
C1_Witness ==
    /\ rate_limit = <<"3", "/", "s">>
    /\ result.outcome = "Retry"
    /\ ncalls = 4
    /\ window[result.bucket_key].admitted = 3
    /\ result.retries = <<RetryRequest(result.args, 1)>>

\* C2: while a key exists and at most one caller found it absent, at most
\* limit invocations on it have run the body
C2_OverAdmissionBounded ==
    \A k \in BucketKeys :
        (Limit >= 1 /\ window[k].absent <= 1) => window[k].admitted <= Limit

\* C3: a refused call during which nothing else touched the key leaves the
\* stored value as it found it
C3_DeniedRestoresValue ==
    (result.outcome = "Retry" /\ result.quiet) =>
        /\ result.before.exists
        /\ result.after.exists
        /\ result.after.value = result.before.value

C3_Witness ==
    /\ result.outcome = "Retry"
    /\ result.quiet
    /\ result.before.exists
    /\ result.before.value = 0

\* C4: with calls one at a time, once a call on a key has been refused and
\* period_seconds have passed since the key was initialised, the key is
\* gone; and the call that follows a refused call and finds the key absent
\* runs the body and leaves the key at limit - 1, expiring after
\* period_seconds
C4_WindowResets ==
    /\ \A k \in BucketKeys :
          ( /\ AllIdle
            /\ result.outcome = "Retry"
            /\ result.bucket_key = k
            /\ window[k].initialized
            /\ window[k].age >= Period) => ~redis[k].exists
    /\ (result.after_retry /\ ~result.before.exists) =>
          /\ result.outcome = "Returned"
          /\ result.body = <<result.args>>
          /\ result.after = Entry(Limit - 1, Period)

\* some store operation of the invocation failed
StoreFailed(r) == \E i \in 1..Len(r.ops) : ~r.ops[i].ok

\* C5: an invocation one of whose store operations failed ends with the
\* store's error: the body was not run, no retry was requested, and the
\* failed operation is the last one issued, each operation issued once
C5_StoreFailurePropagates ==
    StoreFailed(result) =>
        /\ result.outcome = "ConnectionError"
        /\ result.body = <<>>
        /\ result.retries = <<>>
        /\ ~result.ops[Len(result.ops)].ok
        /\ \A i, j \in 1..Len(result.ops) :
              result.ops[i].op = result.ops[j].op => i = j

C5_Witness ==
    /\ StoreFailed(result)
    /\ Len(result.ops) = 2
    /\ result.ops[2].op = "incr"

\* the declared rate_limit does not parse
BadConfig == rate_limit = None \/ ~_parse_rate_limit(rate_limit).ok

\* C6: an invocation without positional argument, or of a task whose
\* rate_limit does not parse, ends at once with ValueError: the store is
\* as before, no store operation was issued, the body was not run and no
\* retry was requested
C6_FailsBeforeStore ==
    [][(ncalls' = ncalls + 1 /\ (BadConfig \/ (pc' = pc /\ result'.args = <<>>)))
         => /\ redis' = redis
            /\ pc' = pc
            /\ result'.outcome = "ValueError"
            /\ result'.ops = <<>>
            /\ result'.body = <<>>
            /\ result'.retries = <<>>
      ]_vars

\* a call without arguments on a working task, with a key in the store
C6_Witness ==
    /\ result.outcome = "ValueError"
    /\ result.args = <<>>
    /\ result.ops = <<>>
    /\ \E k \in BucketKeys : redis[k].exists
    /\ \E w \in Workers : task[w]._rate_limit_initialized

\* every store operation of the invocation was answered, the pipeline
\* among them
StoreAnswered(r) == Len(r.ops) >= 1 /\ ~StoreFailed(r)

\* the admission outcomes, read off the pipeline's two results
Admitted(r) ==
    StoreAnswered(r) /\ (~r.tokens_before.some \/ r.tokens_after >= 0)

Denied(r) == StoreAnswered(r) /\ r.tokens_before.some /\ r.tokens_after < 0

\* C7: the body is run exactly when the call is admitted, then once and
\* with the call's arguments; a denied call does not run the body and asks
\* the task runner for one retry of the same call after period_seconds
C7_BodyIffAdmitted ==
    result.outcome # "none" =>
        /\ (result.body # <<>>) <=> Admitted(result)
        /\ Admitted(result) =>
              /\ result.body = <<result.args>>
              /\ result.retries = <<>>
              /\ result.outcome = "Returned"
        /\ Denied(result) =>
              /\ result.body = <<>>
              /\ result.retries = <<RetryRequest(result.args, Period)>>
              /\ result.outcome = "Retry"

\* a denied call under "2/M": one retry after 60 seconds
C7_Witness ==
    /\ Denied(result)
    /\ result.body = <<>>
    /\ result.retries = <<RetryRequest(result.args, 60)>>

\* C8: a key is initialised at most as often as a caller's GET found it
\* absent; only a caller whose own GET found it absent issues the SETEX,
\* and once
C8_InitsBoundedByAbsent ==
    /\ \A k \in BucketKeys : window[k].inits <= window[k].absent
    /\ \A w \in Workers : pc[w] = "setex" => ~frame[w].tokens_before.some
    /\ \A i \in 1..Len(result.ops) :
          result.ops[i].op = "setex" =>
              /\ ~result.tokens_before.some
              /\ \A j \in 1..Len(result.ops) :
                    result.ops[j].op = "setex" => i = j

\* a key initialised once while another caller is in the middle of a call
\* on it
C8_Witness ==
    \E k \in BucketKeys, w \in Workers :
        /\ window[k].inits = 1
        /\ window[k].absent = 1
        /\ pc[w] = "incr"
        /\ frame[w].bucket_key = k

\* the number of separators in a string
CountSlash(s) == Cardinality({i \in 1..Len(s) : s[i] = "/"})

\* the part of a string before its first separator, and the part after it
BeforeSlash(s) ==
    SubSeq(s, 1, (CHOOSE i \in 1..Len(s) :
                     s[i] = "/" /\ \A j \in 1..(i - 1) : s[j] # "/") - 1)

AfterSlash(s) ==
    SubSeq(s, (CHOOSE i \in 1..Len(s) :
                  s[i] = "/" /\ \A j \in 1..(i - 1) : s[j] # "/") + 1, Len(s))

UnitLetters == {<<"s">>, <<"m">>, <<"h">>, <<"S">>, <<"M">>, <<"H">>}

\* the numerator reads as an integer greater than zero
PositiveNumerator(part) == PyInt(part).some /\ PyInt(part).v > 0

\* a string the documentation says the parser refuses
Malformed(s) ==
    \/ s = <<>>
    \/ CountSlash(s) # 1
    \/ ~PositiveNumerator(BeforeSlash(s))
    \/ AfterSlash(s) \notin UnitLetters

\* C9: the parser fails on every string that is empty, has not exactly one
\* separator, has a numerator that is no positive integer, or has a unit
\* other than s, m, h
C9_RejectsMalformed ==
    (parse_result # <<>> /\ Malformed(rate_limit)) => ~parse_result[1].ok

\* ten to the n
RECURSIVE Pow10(_)
Pow10(n) == IF n = 0 THEN 1 ELSE 10 * Pow10(n - 1)

\* the number a string of decimal digits denotes
RECURSIVE Decimal(_)
Decimal(d) ==
    IF d = <<>> THEN 0
    ELSE DigitVal(Head(d)) * Pow10(Len(d) - 1) + Decimal(Tail(d))

\* the seconds of a unit letter, in either case
UnitSeconds(u) ==
    IF u \in {<<"s">>, <<"S">>} THEN 1
    ELSE IF u \in {<<"m">>, <<"M">>} THEN 60
    ELSE 3600

\* "N/u": decimal digits denoting a positive N, one separator, a unit letter
WellFormed(s) ==
    /\ CountSlash(s) = 1
    /\ BeforeSlash(s) # <<>>
    /\ \A i \in 1..Len(BeforeSlash(s)) : BeforeSlash(s)[i] \in Digits
    /\ Decimal(BeforeSlash(s)) > 0
    /\ AfterSlash(s) \in UnitLetters

\* C10: "N/s", "N/m", "N/h" with N a positive integer parse to (N, 1),
\* (N, 60), (N, 3600), the unit letter in either case; a period returned is
\* one of 1, 60, 3600
C10_ParsesWellFormed ==
    parse_result # <<>> =>
        /\ WellFormed(rate_limit) =>
              parse_result[1] = Parsed(Decimal(BeforeSlash(rate_limit)),
                                       UnitSeconds(AfterSlash(rate_limit)))
        /\ parse_result[1].ok =>
              parse_result[1].period_seconds \in {1, 60, 3600}

\* "13/M" parsed to (13, 60)
C10_Witness ==
    /\ rate_limit = <<"1", "3", "/", "M">>
    /\ parse_result = <<Parsed(13, 60)>>

\* an invocation of worker w is in progress on key k
InProgress(w, k) == pc[w] # "idle" /\ frame[w].bucket_key = k

\* C11: with a limit of at least 1, whenever the value stored under a key
\* is negative, some invocation is in progress on that key whose decrement
\* returned a negative value and whose next store operation is still to
\* come; so the stored value is at least 0 whenever no invocation is in
\* progress on the key
C11_NegativeOnlyInFlight ==
    Limit >= 1 =>
        \A k \in BucketKeys :
            (redis[k].exists /\ redis[k].value < 0) =>
                \E w \in Workers :
                    InProgress(w, k) /\ frame[w].tokens_after < 0

\* C12: whenever no invocation is in progress on a key, the key is absent
\* or carries an expiry: no key is left without a time to live, so that
\* every key goes away once the calls on it stop
C12_IdleKeyHasExpiry ==
    \A k \in BucketKeys :
        (\A w \in Workers : ~InProgress(w, k)) =>
            (~redis[k].exists \/ ~redis[k].persist)

Triple(e) == <<e.base_key_prefix, e.name, e.client_id>>

\* C14: two invocations that differ in the decorator's key prefix, in the
\* task's name or in the client id never build the same bucket key
C14_KeyInjective ==
    \A i, j \in 1..Len(keyed) :
        Triple(keyed[i]) # Triple(keyed[j]) =>
            keyed[i].bucket_key # keyed[j].bucket_key

\* the store operations of an invocation: the pipeline, then at most one of
\* SETEX (the GET found no key) and INCR (the key was there and the
\* decrement returned less than 0)
TwoRoundTrips(r) ==
    /\ Len(r.ops) <= 2
    /\ Len(r.ops) >= 1 => r.ops[1].op = "execute"
    /\ Len(r.ops) = 2 =>
          /\ r.ops[1].ok
          /\ r.ops[2].op \in {"setex", "incr"}
          /\ r.ops[2].op = "setex" <=> ~r.tokens_before.some
          /\ r.ops[2].op = "incr" =>
                (r.tokens_before.some /\ r.tokens_after < 0)
    /\ r.outcome = "Retry" => Len(r.ops) = 2 /\ r.ops[2].op = "incr"

\* C15: an invocation ends after at most two round trips to the store: the
\* pipeline, then at most one of SETEX and INCR, never both and none twice;
\* the step that follows the pipeline ends the invocation, a refused one
\* included, which returns with its INCR
C15_AtMostTwoRoundTrips ==
    [][ /\ \A w \in Workers :
              (pc[w] # "idle" /\ pc'[w] # pc[w]) => pc'[w] = "idle"
        /\ \A w \in Workers :
              (pc[w] = "idle" /\ pc'[w] # "idle") =>
                  pc'[w] = (IF frame'[w].tokens_before.some
                            THEN "incr" ELSE "setex")
        /\ Ends => TwoRoundTrips(result')
      ]_vars

\* a refused call has returned after the pipeline and the INCR, before any
\* time has passed
C15_Witness ==
    /\ result.outcome = "Retry"
    /\ result.ops = <<Op("execute", TRUE), Op("incr", TRUE)>>
    /\ nticks = 0

\* C16: with a limit of at least 1, the value stored under a key is never
\* more than limit - 1
C16_ValueAtMostLimitMinusOne ==
    Limit >= 1 =>
        \A k \in BucketKeys : redis[k].exists => redis[k].value <= Limit - 1

\* the invocations that have run the body on key k since it last did not
\* exist, those about to (the SETEX of a first call still to come) included
AdmittedSoFar(k) ==
    window[k].admitted
      + Cardinality({x \in Workers : pc[x] = "setex"
                                      /\ frame[x].bucket_key = k})

\* C17: an invocation is refused (goes on to its compensating INCR) only
\* when at least limit invocations have been admitted on its key in the
\* current window
C17_DeniedOnlyWhenExhausted ==
    [][\A w \in Workers :
          (pc[w] = "idle" /\ pc'[w] = "incr") =>
              AdmittedSoFar(frame'[w].bucket_key) >= Limit
      ]_vars

\* whether a key is there, and when it goes away
Expiry(e) == [exists |-> e.exists, persist |-> e.persist, ttl |-> e.ttl]

\* this step is a store operation of an invocation whose GET found the key
\* present: a pipeline that is not the first call's, or an INCR
PresentKeyStep ==
    \/ \E w \in Workers : pc[w] = "incr" /\ pc'[w] = "idle"
    \/ /\ ncalls' = ncalls + 1
       /\ \A w \in Workers : pc'[w] = "setex" => pc[w] = "setex"

\* C18: a store operation of an invocation whose GET found the key present
\* leaves the expiry of every key as it was: only the initialisation of an
\* absent key sets an expiry
C18_ExpiryUnchanged ==
    [][PresentKeyStep =>
          \A k \in BucketKeys : Expiry(redis'[k]) = Expiry(redis[k])
      ]_vars

\* the key of the call the task runner is to make again
RetryKey == BucketKey(base_key_prefix, name, retry.args[1])

\* C19: when a call was refused and no other invocation has operated on its
\* key since, the key is gone once the countdown of the retry has passed,
\* and the retried call finds no key and runs the body
C19_RetryFindsKeyExpired ==
    /\ (retry.state = "pending" /\ ~retry.touched /\ retry.countdown = 0) =>
          ~redis[RetryKey].exists
    /\ (retry.state = "done" /\ ~retry.touched) =>
          /\ ~result.tokens_before.some
          /\ result.outcome = "Returned"

\* C20: an invocation that stopped after its pipeline was applied and
\* before its SETEX or INCR was (a store failure, or the worker died)
\* leaves its key absent or carrying an expiry
C20_StoppedCallLeavesExpiry ==
    ( /\ result.outcome \in {"ConnectionError", "Crashed"}
      /\ Len(result.ops) >= 1
      /\ result.ops[1].ok ) =>
        (~result.after.exists \/ ~result.after.persist)

=============================================================================
